---- MODULE Spec2Model ----
(***************************************************************************)
(* Model of src/Messung.py: the motor efficiency measurement script.       *)
(* The script is one sequential process; pc is its position.  Every call   *)
(* to the controller (VESC), every time.sleep, every prompt and the plot   *)
(* is one step.  Telemetry values, the typed pole-pair count and the       *)
(* success or failure of each external call are the inputs.                *)
(*                                                                         *)
(* Numbers.  The duty cycle is a Python float: it is modelled as the exact *)
(* IEEE-754 double, an integer count of 2^-56 held in two limbs of 28 bits *)
(* (TLC's integers are 32 bits wide), with round-to-nearest-even after     *)
(* each addition.  Telemetry values are drawn from integers; erpm / pole    *)
(* pairs is kept as an exact quotient, which orders the values drawn here  *)
(* exactly as the doubles of the source do.  The fit and the efficiency    *)
(* are computed in exact arithmetic.                                       *)
(***************************************************************************)
EXTENDS Integers, Sequences, FiniteSets, TLC

\* ------------------------------------------------------------------ bounds
\* The telemetry source stops delivering data once the log holds this many
\* samples (the source's loop itself is unbounded).
MaxSamples == 11

\* ------------------------------------------------------- optional values
None == <<>>
Some(x) == <<x>>
Get(o) == o[1]

\* ---------------------------------------------------- IEEE-754 doubles
\* A double in [0, 2) as [hi, lo]: value = (hi * 2^28 + lo) * 2^-56.
Limb == 2^28

Float(h, l) == [hi |-> h, lo |-> l]

FloatZero == Float(0, 0)

\* The unit in the last place, in counts of 2^-56, of a value with high limb h.
Ulp(h) ==
    IF h >= 268435456 THEN 16
    ELSE IF h >= 134217728 THEN 8
    ELSE IF h >= 67108864 THEN 4
    ELSE IF h >= 33554432 THEN 2
    ELSE 1

\* Carry the low limb into the high limb.
Carry(h, l) == Float(h + (l \div Limb), l % Limb)

\* Round an exact sum to 53 significant bits, ties to even.
RoundNearestEven(x) ==
    LET q == Ulp(x.hi)
        r == x.lo % q
        down == x.lo - r
        up == down + q
        evenDown == (down \div q) % 2 = 0
    IN  IF r = 0 THEN x
        ELSE IF 2 * r < q \/ (2 * r = q /\ evenDown) THEN Float(x.hi, down)
        ELSE Carry(x.hi, up)

\* a + b on doubles.
FloatAdd(a, b) == RoundNearestEven(Carry(a.hi + b.hi, a.lo + b.lo))

\* a < b on doubles.
FloatLess(a, b) == a.hi < b.hi \/ (a.hi = b.hi /\ a.lo < b.lo)

\* duty_cycle = 0.95, the target of the ramp.
duty_cycle == Float(255013683, 53687088)

\* The literal 0.1 the ramp starts from.
StartDuty == Float(26843545, 161061274)

\* A ramp that adds 0.1, the start value, instead of 0.05.
DutyStep_Tenth == Float(26843545, 161061274)

\* The literal 0.05 added after each command.
DutyStep == Float(13421772, 214748365)

\* ------------------------------------------------------------ fractions
Abs(x) == IF x < 0 THEN -x ELSE x

\* The quotient n / d of two integers (d # 0), kept as numerator and
\* positive denominator.
Frac(n, d) == IF d < 0 THEN [n |-> -n, d |-> -d] ELSE [n |-> n, d |-> d]

FracLess(x, y) == x.n * y.d < y.n * x.d

FracEq(x, y) == x.n * y.d = y.n * x.d

\* ------------------------------------------------- unbounded integers
\* The fit multiplies sums of squares that do not fit TLC's 32-bit integers:
\* an integer is [s, m], sign s in {-1, 0, 1} and magnitude m a sequence of
\* base-1000 digits, least significant first, without leading zeros.
Base == 10^3

RECURSIVE NatOfInt(_)
NatOfInt(n) == IF n = 0 THEN <<>> ELSE <<n % Base>> \o NatOfInt(n \div Base)

Digit(a, i) == IF i <= Len(a) THEN a[i] ELSE 0

Max(x, y) == IF x < y THEN y ELSE x

Min(x, y) == IF x < y THEN x ELSE y

RECURSIVE Strip(_)
Strip(a) ==
    IF a # <<>> /\ a[Len(a)] = 0 THEN Strip(SubSeq(a, 1, Len(a) - 1)) ELSE a

\* The digits of the number whose i-th digit position holds t[i] >= 0.
RECURSIVE CarryFrom(_, _, _)
CarryFrom(t, i, carry) ==
    IF i > Len(t) THEN NatOfInt(carry)
    ELSE <<(t[i] + carry) % Base>> \o CarryFrom(t, i + 1, (t[i] + carry) \div Base)

NatAdd(a, b) ==
    CarryFrom([i \in 1..Max(Len(a), Len(b)) |-> Digit(a, i) + Digit(b, i)], 1, 0)

\* a - b for a >= b.
RECURSIVE NatSubFrom(_, _, _, _)
NatSubFrom(a, b, i, borrow) ==
    IF i > Len(a) THEN <<>>
    ELSE LET t == Digit(a, i) - Digit(b, i) - borrow
         IN  IF t < 0
               THEN <<t + Base>> \o NatSubFrom(a, b, i + 1, 1)
               ELSE <<t>> \o NatSubFrom(a, b, i + 1, 0)

NatSub(a, b) == Strip(NatSubFrom(a, b, 1, 0))

\* -1, 0, 1 as a < b, a = b, a > b.
RECURSIVE NatCmpFrom(_, _, _)
NatCmpFrom(a, b, i) ==
    IF i = 0 THEN 0
    ELSE IF a[i] < b[i] THEN -1
    ELSE IF a[i] > b[i] THEN 1
    ELSE NatCmpFrom(a, b, i - 1)

NatCmp(a, b) ==
    IF Len(a) < Len(b) THEN -1
    ELSE IF Len(a) > Len(b) THEN 1
    ELSE NatCmpFrom(a, b, Len(a))

\* The sum of a[i] * b[k + 1 - i] for i in lo..hi.
RECURSIVE Conv(_, _, _, _, _)
Conv(a, b, k, lo, hi) ==
    IF lo > hi THEN 0 ELSE a[lo] * b[k + 1 - lo] + Conv(a, b, k, lo + 1, hi)

NatMul(a, b) ==
    IF a = <<>> \/ b = <<>> THEN <<>>
    ELSE Strip(CarryFrom(
           [k \in 1..(Len(a) + Len(b) - 1) |->
              Conv(a, b, k, Max(1, k + 1 - Len(b)), Min(Len(a), k))], 1, 0))

Big(sign, mag) == [s |-> IF mag = <<>> THEN 0 ELSE sign, m |-> mag]

BigOfInt(n) == Big(IF n < 0 THEN -1 ELSE 1, NatOfInt(Abs(n)))

BigZero == BigOfInt(0)

BigNeg(a) == Big(-a.s, a.m)

BigAdd(a, b) ==
    IF a.s = 0 THEN b
    ELSE IF b.s = 0 THEN a
    ELSE IF a.s = b.s THEN Big(a.s, NatAdd(a.m, b.m))
    ELSE IF NatCmp(a.m, b.m) >= 0 THEN Big(a.s, NatSub(a.m, b.m))
    ELSE Big(b.s, NatSub(b.m, a.m))

BigSub(a, b) == BigAdd(a, BigNeg(b))

BigMul(a, b) == Big(a.s * b.s, NatMul(a.m, b.m))

BigLess(a, b) == BigSub(a, b).s < 0

\* ----------------------------------------------------------- exact reals
\* The fit and the efficiency are computed in exact arithmetic (the rounding
\* of the doubles is not modelled).  A number is (n / d) * tau^t with d > 0,
\* where tau stands for 2 * np.pi: products and quotients keep the power of
\* tau, so it cancels where it cancels in the source; a sum or comparison of
\* different powers uses the value of the double, tau = 884279719003555 / 2^47.
Q(num, den, pow) ==
    IF num.s = 0 THEN [n |-> num, d |-> BigOfInt(1), t |-> 0]
    ELSE [n |-> num, d |-> den, t |-> pow]

QOfInt(k) == Q(BigOfInt(k), BigOfInt(1), 0)

QOfFrac(f) == Q(BigOfInt(f.n), BigOfInt(f.d), 0)

\* 2 * np.pi
TwoPi == Q(BigOfInt(1), BigOfInt(1), 1)

TauNum == Big(1, <<555, 3, 719, 279, 884>>)

TauDen == Big(1, <<328, 355, 488, 737, 140>>)

\* The same number with t = 0.
RECURSIVE QValue(_)
QValue(x) ==
    IF x.t = 0 THEN x
    ELSE IF x.t > 0
      THEN QValue([n |-> BigMul(x.n, TauNum), d |-> BigMul(x.d, TauDen),
                   t |-> x.t - 1])
      ELSE QValue([n |-> BigMul(x.n, TauDen), d |-> BigMul(x.d, TauNum),
                   t |-> x.t + 1])

\* x + y for two numbers with the same power of tau.
QAddSame(x, y) ==
    IF x.d = y.d THEN Q(BigAdd(x.n, y.n), x.d, x.t)
    ELSE Q(BigAdd(BigMul(x.n, y.d), BigMul(y.n, x.d)), BigMul(x.d, y.d), x.t)

QAdd(x, y) ==
    IF x.n.s = 0 THEN y
    ELSE IF y.n.s = 0 THEN x
    ELSE IF x.t = y.t THEN QAddSame(x, y)
    ELSE QAddSame(QValue(x), QValue(y))

QNeg(x) == Q(BigNeg(x.n), x.d, x.t)

QSub(x, y) == QAdd(x, QNeg(y))

QMul(x, y) == Q(BigMul(x.n, y.n), BigMul(x.d, y.d), x.t + y.t)

\* x / y for y # 0.
QDiv(x, y) ==
    LET sgn == BigOfInt(y.n.s)
        mag == BigMul(sgn, y.n)
    IN  IF x.d = y.d THEN Q(BigMul(sgn, x.n), mag, x.t - y.t)
        ELSE Q(BigMul(sgn, BigMul(x.n, y.d)), BigMul(x.d, mag), x.t - y.t)

QSign(x) == x.n.s

QLess(x, y) == QSign(QSub(x, y)) < 0

QEq(x, y) == QSign(QSub(x, y)) = 0

QMax(x, y) == IF QLess(x, y) THEN y ELSE x

QMin(x, y) == IF QLess(y, x) THEN y ELSE x

\* ---------------------------------------------------------------- the fit
RECURSIVE Dot(_, _)
\* The sum of x[k] * y[k] over two sequences of rationals of equal length.
Dot(x, y) ==
    IF x = <<>> THEN QOfInt(0)
    ELSE QAdd(QMul(x[1], y[1]), Dot(Tail(x), Tail(y)))

\* A fit of each column on its own, as if the two columns were orthogonal.
Lstsq_ColumnWise(a, b, v) ==
    << IF QSign(Dot(a, a)) # 0 THEN QDiv(Dot(a, v), Dot(a, a)) ELSE QOfInt(0),
       IF QSign(Dot(b, b)) # 0 THEN QDiv(Dot(b, v), Dot(b, b)) ELSE QOfInt(0) >>

\* np.linalg.lstsq(A, v, rcond=None)[0] for A = [a, b] of two columns: the
\* least-squares solution, and the one of least norm where A has rank < 2
\* (rank 1: the pseudo-inverse is A^T / (a.a + b.b); rank 0: zero).
Lstsq(a, b, v) ==
    LET Saa == Dot(a, a)
        Sab == Dot(a, b)
        Sbb == Dot(b, b)
        Sav == Dot(a, v)
        Sbv == Dot(b, v)
        det == QSub(QMul(Saa, Sbb), QMul(Sab, Sab))
        sq == QAdd(Saa, Sbb)
    IN  IF QSign(det) # 0
          THEN << QDiv(QSub(QMul(Sav, Sbb), QMul(Sbv, Sab)), det),
                  QDiv(QSub(QMul(Saa, Sbv), QMul(Sab, Sav)), det) >>
        ELSE IF QSign(sq) # 0
          THEN << QDiv(Sav, sq), QDiv(Sbv, sq) >>
        ELSE << QOfInt(0), QOfInt(0) >>

\* A fit window that is the whole log.
First10_All(l) == l

\* The first 10 entries of a list: currents[:10].
First10(l) == SubSeq(l, 1, IF Len(l) < 10 THEN Len(l) ELSE 10)

\* i_values, v_values, rpm_values, A = vstack([i, 2 pi rpm]).T and the call
\* of lstsq: the pair (R, c).
FitCoefficients(cs, vs, rs) ==
    LET i_values == [k \in 1..Len(First10(cs)) |-> QOfInt(First10(cs)[k])]
        v_values == [k \in 1..Len(First10(vs)) |-> QOfInt(First10(vs)[k])]
        rpm_values ==
            [k \in 1..Len(First10(rs)) |-> QMul(TwoPi, QOfFrac(First10(rs)[k]))]
        x == Lstsq(i_values, rpm_values, v_values)
    IN  [R |-> x[1], c |-> x[2]]

\* An efficiency loop body without the clamp of line 128.
Efficiency_Unclamped(co, current, rpm, voltage) ==
    LET input_power == voltage * current
        estimated_voltage ==
            QAdd(QMul(co.R, QOfInt(current)),
                 QMul(QMul(co.c, TwoPi), QOfFrac(rpm)))
        mechanical_power ==
            QMax(QOfInt(0), QMul(estimated_voltage, QOfInt(current)))
    IN  IF input_power > 0
          THEN QMul(QDiv(mechanical_power, QOfInt(input_power)), QOfInt(100))
          ELSE QOfInt(0)

\* The body of the efficiency loop for one sample, clamped to [0, 100].
Efficiency(co, current, rpm, voltage) ==
    LET input_power == voltage * current
        estimated_voltage ==
            QAdd(QMul(co.R, QOfInt(current)),
                 QMul(QMul(co.c, TwoPi), QOfFrac(rpm)))
        mechanical_power ==
            QMax(QOfInt(0), QMul(estimated_voltage, QOfInt(current)))
        efficiency ==
            IF input_power > 0
              THEN QMul(QDiv(mechanical_power, QOfInt(input_power)), QOfInt(100))
              ELSE QOfInt(0)
    IN  QMax(QOfInt(0), QMin(QOfInt(100), efficiency))

\* ------------------------------------------------------------ telemetry
\* What vesc.get_measurements() returns when it returns data: the three
\* fields the script reads.
Measurement(i, e, v) == [avg_input_current |-> i, rpm |-> e, v_in |-> v]

\* The snapshots the controller may deliver during the measurement, in the
\* order of the load on the motor: the load is only ever increased, so the
\* current does not fall and the speed does not rise.
LoadCurve ==
    << Measurement(10, 3500, 12), Measurement(60, 1000, 12),
       Measurement(60, 999, 12), Measurement(61, 1000, 11) >>

\* The snapshot it may deliver before the motor runs.
IdleSnapshots == { Measurement(0, 0, 12) }

\* The integers the operator may type at the pole-pair prompt.
PolePairInputs == {-2, 0, 7}

\* ------------------------------------------------------ the script's tests
\* A retry budget of 4.
retries_Four == 3 + 1

\* retries = 3
retries == 3

\* while current_duty_cycle < duty_cycle
\* A ramp that goes on up to full duty.
RampCondition_UpToOne(cdc) == FloatLess(cdc, Float(Limb, 0))

RampCondition(cdc) == FloatLess(cdc, duty_cycle)

\* rpm = erpm / magnet_pole_pairs if magnet_pole_pairs > 0 else 0
Rpm(erpm, pp) == IF pp > 0 THEN Frac(erpm, pp) ELSE Frac(0, 1)

\* The stop check with >= and <= in place of > and <.
StopCheck_NonStrict(current, rpm, pp) ==
    IF current >= 60 THEN "stop"
    ELSE IF pp = 0 THEN "raise"
    ELSE IF ~FracLess(Frac(1000, pp), rpm) THEN "stop"
    ELSE "continue"

\* A stop check that never stops the loop.
StopCheck_NeverStops(current, rpm, pp) == "continue"

\* if current > 60 or rpm < 1000 / magnet_pole_pairs: break
\* The right operand is evaluated only when the left is false; with
\* magnet_pole_pairs = 0 it raises ZeroDivisionError.
StopCheck(current, rpm, pp) ==
    IF current > 60 THEN "stop"
    ELSE IF pp = 0 THEN "raise"
    ELSE IF FracLess(rpm, Frac(1000, pp)) THEN "stop"
    ELSE "continue"

\* A fit that accepts 9 samples.
EnoughData_Nine(n) == n >= 9

\* if len(currents) >= 10
EnoughData(n) == n >= 10

\* A ramp handler that prints the error and lets the loop go on.
Exit_RampGoesOn(site) == IF site = "ramp" THEN "ramp_sleep" ELSE "exited"

\* exit(1): SystemExit is no Exception, so no handler of the script catches
\* it and the interpreter terminates at once.
Exit(site) == "exited"

\* A loop exit that terminates the script, and one that skips the fit.
Break_Exit == "exited"

Break_SkipFit == "stop_motor"

\* break in the measurement loop: control falls to the parameter fit.
Break == "fit"

\* plt.plot(x, y) raises ValueError unless x and y have the same length.
PlotAccepts(x, y) == Len(x) = Len(y)

VARIABLES
    pc,                 \* position of the script
    vesc,               \* the name vesc: "unbound", "open", "deleted"
    magnet_pole_pairs,  \* None or Some(integer)
    idle_current,       \* None or Some(number)
    current_duty_cycle, \* None before the ramp, then Some(double)
    state,              \* result of the last get_measurements(): None or Some
    attempt,            \* queries made in the current sampling iteration
    currents, erpms, voltages, efficiencies,   \* the four lists
    coefficients,       \* None or Some([R, c]) of the fit
    commands,           \* arguments of the set_duty_cycle calls made so far
    settles,            \* time.sleep(acceleration_delay) calls made so far
    slept,              \* a retry delay has passed since the last query
    load,               \* the motor: index in LoadCurve of the load applied
    failed,             \* which error message was printed before exit(1)
    stopCause,          \* how the measurement loop was left
    motorStop,          \* outcome of set_duty_cycle(0)
    plot                \* outcome of the plot block

vars == << pc, vesc, magnet_pole_pairs, idle_current, current_duty_cycle,
           state, attempt, currents, erpms, voltages, efficiencies,
           coefficients, commands, settles, slept, load, failed,
           stopCause, motorStop, plot >>

lists == << currents, erpms, voltages >>

Init ==
    /\ pc = "connect"
    /\ vesc = "unbound"
    /\ magnet_pole_pairs = None
    /\ idle_current = None
    /\ current_duty_cycle = None
    /\ state = None
    /\ attempt = 0
    /\ currents = <<>>
    /\ erpms = <<>>
    /\ voltages = <<>>
    /\ efficiencies = <<>>
    /\ coefficients = None
    /\ commands = <<>>
    /\ settles = 0
    /\ slept = FALSE
    /\ load = 1
    /\ failed = "none"
    /\ stopCause = "none"
    /\ motorStop = "none"
    /\ plot = "none"

\* vesc = VESC(serial_port=...) or, on an exception, exit(1).
Connect ==
    /\ pc = "connect"
    /\ \/ /\ vesc' = "open"
          /\ pc' = "ask_pole_pairs"
          /\ UNCHANGED failed
       \/ /\ failed' = "connect"
          /\ pc' = Exit("connect")
          /\ UNCHANGED vesc
    /\ UNCHANGED << load, magnet_pole_pairs, idle_current, current_duty_cycle, state,
                    attempt, currents, erpms, voltages, efficiencies,
                    coefficients, commands, settles, slept, stopCause,
                    motorStop, plot >>

\* magnet_pole_pairs = int(input(...)) or, on ValueError, exit(1).
AskPolePairs ==
    /\ pc = "ask_pole_pairs"
    /\ \/ \E p \in PolePairInputs :
             /\ magnet_pole_pairs' = Some(p)
             /\ pc' = "measure_idle"
             /\ UNCHANGED failed
       \/ /\ failed' = "input"
          /\ pc' = Exit("input")
          /\ UNCHANGED magnet_pole_pairs
    /\ UNCHANGED << load, vesc, idle_current, current_duty_cycle, state, attempt,
                    currents, erpms, voltages, efficiencies, coefficients,
                    commands, settles, slept, stopCause, motorStop, plot >>

\* The idle-current block, then current_duty_cycle = 0.1.
MeasureIdle ==
    /\ pc = "measure_idle"
    /\ \/ \E s \in {None} \cup {Some(m) : m \in IdleSnapshots} :
             /\ state' = s
             /\ idle_current' =
                  Some(IF s # None THEN Get(s).avg_input_current ELSE 0)
             /\ current_duty_cycle' = Some(StartDuty)
             /\ pc' = "ramp"
             /\ UNCHANGED failed
       \/ /\ failed' = "idle"
          /\ pc' = Exit("idle")
          /\ UNCHANGED << state, idle_current, current_duty_cycle >>
    /\ UNCHANGED << load, vesc, magnet_pole_pairs, attempt, currents, erpms,
                    voltages, efficiencies, coefficients, commands, settles,
                    slept, stopCause, motorStop, plot >>

\* One pass of the ramp loop up to the sleep: the loop test holds,
\* set_duty_cycle(current_duty_cycle), then current_duty_cycle += 0.05;
\* if the call raises, the handler prints and calls exit(1).
RampCommand ==
    /\ pc = "ramp"
    /\ RampCondition(Get(current_duty_cycle))
    /\ commands' = Append(commands, Get(current_duty_cycle))
    /\ \/ /\ current_duty_cycle' =
                Some(FloatAdd(Get(current_duty_cycle), DutyStep))
          /\ pc' = "ramp_sleep"
          /\ UNCHANGED failed
       \/ /\ failed' = "ramp"
          /\ pc' = Exit("ramp")
          /\ UNCHANGED current_duty_cycle
    /\ UNCHANGED << load, vesc, magnet_pole_pairs, idle_current, state, attempt,
                    currents, erpms, voltages, efficiencies, coefficients,
                    settles, slept, stopCause, motorStop, plot >>

\* time.sleep(acceleration_delay), back to the loop test.
RampSleep ==
    /\ pc = "ramp_sleep"
    /\ settles' = settles + 1
    /\ pc' = "ramp"
    /\ UNCHANGED << load, vesc, magnet_pole_pairs, idle_current, current_duty_cycle,
                    state, attempt, currents, erpms, voltages, efficiencies,
                    coefficients, commands, slept, failed, stopCause,
                    motorStop, plot >>

\* The loop test fails: time.sleep(2), then the prompt for Enter.
RampDone ==
    /\ pc = "ramp"
    /\ ~RampCondition(Get(current_duty_cycle))
    /\ pc' = "wait_enter"
    /\ UNCHANGED << load, vesc, magnet_pole_pairs, idle_current, current_duty_cycle,
                    state, attempt, currents, erpms, voltages, efficiencies,
                    coefficients, commands, settles, slept, failed, stopCause,
                    motorStop, plot >>

\* input() returns; the first iteration starts with state = None.
WaitEnter ==
    /\ pc = "wait_enter"
    /\ state' = None
    /\ attempt' = 0
    /\ slept' = FALSE
    /\ pc' = "query"
    /\ UNCHANGED << load, vesc, magnet_pole_pairs, idle_current, current_duty_cycle,
                    currents, erpms, voltages, efficiencies, coefficients,
                    commands, settles, failed, stopCause, motorStop, plot >>

\* state = vesc.get_measurements() inside for _ in range(retries): data
\* leaves the for loop, no data goes to the retry delay, an exception is
\* caught by the loop's handler, which breaks.
Query ==
    /\ pc = "query"
    /\ attempt' = attempt + 1
    /\ slept' = FALSE
    /\ \/ \E j \in load..Len(LoadCurve) :
             /\ Len(currents) < MaxSamples
             /\ load' = j
             /\ state' = Some(LoadCurve[j])
             /\ pc' = "log"
             /\ UNCHANGED stopCause
       \/ /\ state' = None
          /\ pc' = "retry_sleep"
          /\ UNCHANGED << stopCause, load >>
       \/ /\ stopCause' = "exception"
          /\ pc' = Break
          /\ UNCHANGED << state, load >>
    /\ UNCHANGED << vesc, magnet_pole_pairs, idle_current, current_duty_cycle,
                    currents, erpms, voltages, efficiencies, coefficients,
                    commands, settles, failed, motorStop, plot >>

\* time.sleep(0.1) after a query without data; when range(retries) is
\* used up, state is None and the loop breaks.
RetrySleep ==
    /\ pc = "retry_sleep"
    /\ slept' = TRUE
    /\ IF attempt < retries
         THEN /\ pc' = "query"
              /\ UNCHANGED stopCause
         ELSE /\ stopCause' = "retry_exhausted"
              /\ pc' = Break
    /\ UNCHANGED << load, vesc, magnet_pole_pairs, idle_current, current_duty_cycle,
                    state, attempt, currents, erpms, voltages, efficiencies,
                    coefficients, commands, settles, failed, motorStop, plot >>

\* A loop body that runs the stop check before voltages.append.
LogSample_CheckBeforeVoltage ==
    /\ pc = "log"
    /\ LET m == Get(state)
           pp == Get(magnet_pole_pairs)
           rpm == Rpm(m.rpm, pp)
           verdict == StopCheck(m.avg_input_current, rpm, pp)
       IN  /\ currents' = Append(currents, m.avg_input_current)
           /\ erpms' = Append(erpms, rpm)
           /\ IF verdict = "continue"
                THEN /\ voltages' = Append(voltages, m.v_in)
                     /\ pc' = "cadence_sleep"
                     /\ UNCHANGED stopCause
                ELSE /\ UNCHANGED voltages
                     /\ pc' = Break
                     /\ stopCause' =
                          IF verdict = "stop" THEN "threshold" ELSE "exception"
    /\ UNCHANGED << load, vesc, magnet_pole_pairs, idle_current, current_duty_cycle,
                    state, attempt, efficiencies, coefficients, commands,
                    settles, slept, failed, motorStop, plot >>

\* The body after a successful query: convert, append to the three lists,
\* then the stop check.
LogSample ==
    /\ pc = "log"
    /\ LET m == Get(state)
           pp == Get(magnet_pole_pairs)
           rpm == Rpm(m.rpm, pp)
           verdict == StopCheck(m.avg_input_current, rpm, pp)
       IN  /\ currents' = Append(currents, m.avg_input_current)
           /\ erpms' = Append(erpms, rpm)
           /\ voltages' = Append(voltages, m.v_in)
           /\ IF verdict = "continue"
                THEN /\ pc' = "cadence_sleep"
                     /\ UNCHANGED stopCause
                ELSE /\ pc' = Break
                     /\ stopCause' =
                          IF verdict = "stop" THEN "threshold" ELSE "exception"
    /\ UNCHANGED << load, vesc, magnet_pole_pairs, idle_current, current_duty_cycle,
                    state, attempt, efficiencies, coefficients, commands,
                    settles, slept, failed, motorStop, plot >>

\* A cadence step that sends the duty cycle again in every iteration.
CadenceSleep_Recommand ==
    /\ pc = "cadence_sleep"
    /\ state' = None
    /\ attempt' = 0
    /\ slept' = FALSE
    /\ commands' = Append(commands, current_duty_cycle)
    /\ pc' = "query"
    /\ UNCHANGED << load, vesc, magnet_pole_pairs, idle_current, current_duty_cycle,
                    currents, erpms, voltages, efficiencies, coefficients,
                    settles, failed, stopCause, motorStop, plot >>

\* time.sleep(0.1), then the next iteration: retries = 3, state = None.
CadenceSleep ==
    /\ pc = "cadence_sleep"
    /\ state' = None
    /\ attempt' = 0
    /\ slept' = FALSE
    /\ pc' = "query"
    /\ UNCHANGED << load, vesc, magnet_pole_pairs, idle_current, current_duty_cycle,
                    currents, erpms, voltages, efficiencies, coefficients,
                    commands, settles, failed, stopCause, motorStop, plot >>

\* The fit block: with at least 10 samples, R and c from the first 10;
\* otherwise only a message, and efficiencies stays as it is.
FitParameters ==
    /\ pc = "fit"
    /\ IF EnoughData(Len(currents))
         THEN /\ coefficients' =
                   Some(FitCoefficients(currents, voltages, erpms))
              /\ pc' = "efficiency"
         ELSE /\ pc' = "stop_motor"
              /\ UNCHANGED coefficients
    /\ UNCHANGED << load, vesc, magnet_pole_pairs, idle_current, current_duty_cycle,
                    state, attempt, currents, erpms, voltages, efficiencies,
                    commands, settles, slept, failed, stopCause, motorStop,
                    plot >>

\* An efficiency loop over the fit window only.
ComputeEfficiency_Window ==
    /\ pc = "efficiency"
    /\ efficiencies' =
         [k \in 1..Len(First10(currents)) |->
            Efficiency(Get(coefficients), currents[k], erpms[k], voltages[k])]
    /\ pc' = "stop_motor"
    /\ UNCHANGED << load, vesc, magnet_pole_pairs, idle_current, current_duty_cycle,
                    state, attempt, currents, erpms, voltages, coefficients,
                    commands, settles, slept, failed, stopCause, motorStop,
                    plot >>

\* efficiencies = [] and the loop over range(len(currents)).
ComputeEfficiency ==
    /\ pc = "efficiency"
    /\ efficiencies' =
         [k \in 1..Len(currents) |->
            Efficiency(Get(coefficients), currents[k], erpms[k], voltages[k])]
    /\ pc' = "stop_motor"
    /\ UNCHANGED << load, vesc, magnet_pole_pairs, idle_current, current_duty_cycle,
                    state, attempt, currents, erpms, voltages, coefficients,
                    commands, settles, slept, failed, stopCause, motorStop,
                    plot >>

\* vesc.set_duty_cycle(0); an exception is printed and the script goes on.
StopMotor ==
    /\ pc = "stop_motor"
    /\ commands' = Append(commands, FloatZero)
    /\ \E r \in {"ok", "error"} : motorStop' = r
    /\ pc' = "plot"
    /\ UNCHANGED << load, vesc, magnet_pole_pairs, idle_current, current_duty_cycle,
                    state, attempt, currents, erpms, voltages, efficiencies,
                    coefficients, settles, slept, failed, stopCause, plot >>

\* The plot block: plt.plot(currents, efficiencies) ... savefig, show; any
\* exception is printed and the script goes on.
PlotResults ==
    /\ pc = "plot"
    /\ \/ /\ PlotAccepts(currents, efficiencies)
          /\ plot' = "saved"
       \/ plot' = "error"
    /\ pc' = "close"
    /\ UNCHANGED << load, vesc, magnet_pole_pairs, idle_current, current_duty_cycle,
                    state, attempt, currents, erpms, voltages, efficiencies,
                    coefficients, commands, settles, slept, failed, stopCause,
                    motorStop >>

\* del vesc, the last statement.
CloseConnection ==
    /\ pc = "close"
    /\ vesc' = "deleted"
    /\ pc' = "done"
    /\ UNCHANGED << load, magnet_pole_pairs, idle_current, current_duty_cycle,
                    state, attempt, currents, erpms, voltages, efficiencies,
                    coefficients, commands, settles, slept, failed, stopCause,
                    motorStop, plot >>

Next ==
    \/ Connect
    \/ AskPolePairs
    \/ MeasureIdle
    \/ RampCommand
    \/ RampSleep
    \/ RampDone
    \/ WaitEnter
    \/ Query
    \/ RetrySleep
    \/ LogSample
    \/ CadenceSleep
    \/ FitParameters
    \/ ComputeEfficiency
    \/ StopMotor
    \/ PlotResults
    \/ CloseConnection

Spec == Init /\ [][Next]_vars

\* ------------------------------------------- the efficiency loop on its own
\* The efficiency loop reads the three lists and the pair (R, c) and
\* nothing else.  Its inputs, as the values the telemetry fields and the
\* fit may take: input currents (negative while the motor feeds back), rpm
\* values, input voltages, and R and c of either sign.
EffCurrents == {-5, 0, 10, 60}

EffRpms == { Frac(0, 1), Frac(3500, 7), Frac(1000, 1) }

EffVoltages == {0, 12}

EffR == { QOfInt(-1), QOfInt(0), QOfFrac(Frac(3, 20)), QOfInt(2) }

EffC ==
    { Q(BigOfInt(-1), BigOfInt(100), -1), QOfInt(0),
      Q(BigOfInt(1), BigOfInt(100), -1), Q(BigOfInt(1), BigOfInt(50), 0) }

\* The state at the head of the efficiency loop, for a log of one sample
\* and a pair (R, c) drawn from the sets above.
EffInit ==
    /\ pc = "efficiency"
    /\ vesc = "open"
    /\ magnet_pole_pairs = Some(7)
    /\ idle_current = Some(0)
    /\ current_duty_cycle = Some(Float(255013683, 53687112))
    /\ state = None
    /\ attempt = 0
    /\ \E i \in EffCurrents : currents = << i >>
    /\ \E r \in EffRpms : erpms = << r >>
    /\ \E v \in EffVoltages : voltages = << v >>
    /\ efficiencies = <<>>
    /\ \E r \in EffR : \E c \in EffC : coefficients = Some([R |-> r, c |-> c])
    /\ commands = <<>>
    /\ settles = 0
    /\ slept = FALSE
    /\ load = 1
    /\ failed = "none"
    /\ stopCause = "threshold"
    /\ motorStop = "none"
    /\ plot = "none"

EffNext == ComputeEfficiency

EffSpec == EffInit /\ [][EffNext]_vars

\* ---------------------------------------------------- the fit on its own
\* The fit reads the first 10 entries of the three lists and nothing else.
\* Logs of 10 samples without noise: the motor's true parameters, R0 in
\* ohm and w0 = c0 * 2 pi in volt per rpm, and operating points (current,
\* rpm); the voltage of a sample is R0 * current + c0 * 2 pi * rpm, which
\* is a whole number for these values.
Truths ==
    { [R |-> r, w |-> w] :
        r \in { Frac(0, 1), Frac(1, 10), Frac(1, 5) },
        w \in { Frac(1, 100), Frac(1, 50) } }

OperatingPoints ==
    { [current |-> 10, rpm |-> Frac(3500, 7)],
      [current |-> 20, rpm |-> Frac(7000, 7)],
      [current |-> 10, rpm |-> Frac(7000, 7)],
      [current |-> 60, rpm |-> Frac(7000, 7)] }

\* The number of samples of a log taken at its first operating point.
SplitPoints == {1, 5}

NoiseFreeVoltage(t, p) ==
    (t.R.n * p.current) \div t.R.d + (t.w.n * p.rpm.n) \div (t.w.d * p.rpm.d)

\* The state at the head of the fit block, for a log of 10 samples: k at
\* the operating point p, then 10 - k at the operating point q.
FitInit ==
    /\ pc = "fit"
    /\ vesc = "open"
    /\ magnet_pole_pairs = Some(7)
    /\ idle_current = Some(0)
    /\ current_duty_cycle = Some(Float(255013683, 53687112))
    /\ state = None
    /\ attempt = 0
    /\ \E t \in Truths : \E p, q \in OperatingPoints : \E k \in SplitPoints :
          LET at(j) == IF j <= k THEN p ELSE q
          IN  /\ currents = [j \in 1..10 |-> at(j).current]
              /\ erpms = [j \in 1..10 |-> at(j).rpm]
              /\ voltages = [j \in 1..10 |-> NoiseFreeVoltage(t, at(j))]
    /\ efficiencies = <<>>
    /\ coefficients = None
    /\ commands = <<>>
    /\ settles = 0
    /\ slept = FALSE
    /\ load = 1
    /\ failed = "none"
    /\ stopCause = "threshold"
    /\ motorStop = "none"
    /\ plot = "none"

FitNext == FitParameters

FitSpec == FitInit /\ [][FitNext]_vars

\* ================================================================ claims
\* set_duty_cycle(0) has been attempted.
ZeroAttempted == \E k \in 1..Len(commands) : commands[k] = FloatZero

\* The duty cycles the ramp commanded: every command but the final zero.
RampCommands == SelectSeq(commands, LAMBDA x : x # FloatZero)

\* The script has left the measurement loop and not terminated early.
AfterSampling == pc \in {"fit", "efficiency", "stop_motor", "plot", "close", "done"}

\* C1: whenever the idle-current measurement or a ramp command fails, a
\* zero duty-cycle command is attempted before the process ends.  The code
\* calls exit(1) in both handlers, so the statement is violated.
C1_ZeroDutyOnFatalExit ==
    (pc = "exited" /\ failed \in {"idle", "ramp"}) => ZeroAttempted

\* C2: for PolePairs > 0 the step that handles an acquired sample appends
\* it (current, erpm / PolePairs, voltage) and leaves the loop if and only
\* if current > 60 or rpm < 1000 / PolePairs, both strict; once the loop
\* is left by the threshold the lists no longer change, so the halting
\* sample stays the last entry.
C2_HaltIffThreshold ==
    [][ /\ (pc = "log" /\ Get(magnet_pole_pairs) > 0 /\ pc' # pc) =>
             LET n == Len(currents')
                 pp == Get(magnet_pole_pairs)
             IN  /\ n = Len(currents) + 1
                 /\ currents' = Append(currents, Get(state).avg_input_current)
                 /\ voltages' = Append(voltages, Get(state).v_in)
                 /\ Len(erpms') = n
                 /\ SubSeq(erpms', 1, n - 1) = erpms
                 /\ erpms'[n].n * pp = Get(state).rpm * erpms'[n].d
                 /\ pc' \in {"fit", "cadence_sleep"}
                 /\ (pc' = "fit") <=>
                       (currents'[n] > 60 \/ erpms'[n].n * pp < 1000 * erpms'[n].d)
                 /\ (pc' = "fit") => stopCause' = "threshold"
        /\ (stopCause = "threshold") => UNCHANGED lists
      ]_vars

\* A sample with current = 60 and rpm just below the floor stopped the loop.
C2_Witness ==
    /\ pc = "fit"
    /\ stopCause = "threshold"
    /\ Get(magnet_pole_pairs) = 7
    /\ currents[Len(currents)] = 60
    /\ erpms[Len(erpms)] = Frac(999, 7)

\* C3: an iteration makes at most 3 queries; a query that is not the first
\* of its iteration is preceded by a retry delay; a query that returns
\* data is followed by the handling of the sample, not by another query of
\* that iteration; after the third query without data the loop is left,
\* and no query is made once the loop is left.
C3_RetryDiscipline ==
    [][ /\ attempt' <= 3
        /\ (pc = "query" /\ pc' # pc /\ attempt >= 1) => slept
        /\ (pc = "query" /\ state' # None /\ stopCause' = "none") => pc' = "log"
        /\ (pc = "log" /\ pc' = "cadence_sleep") => (attempt' = attempt)
        /\ (pc = "cadence_sleep" /\ pc' # pc) => (attempt' = 0 /\ pc' = "query")
        /\ (pc = "retry_sleep" /\ attempt = 3) =>
               (pc' = "fit" /\ stopCause' = "retry_exhausted")
        /\ (pc = "retry_sleep" /\ attempt < 3) => pc' = "query"
        /\ AfterSampling => (AfterSampling' /\ attempt' = attempt)
      ]_vars

\* Three queries without data ended the loop.
C3_Witness ==
    /\ pc = "fit"
    /\ stopCause = "retry_exhausted"
    /\ attempt = 3
    /\ state = None

\* C4: no step of an iteration that finds no data changes the lists; when
\* the retries are used up the lists stay as they are from then on, the
\* next position is the fit, the script never exits early, and it ends
\* with the motor stop and the plot block attempted.
C4_RetryExhaustionPreservesLog ==
    [][ /\ (pc \in {"query", "retry_sleep"}) => UNCHANGED lists
        /\ (stopCause = "none" /\ stopCause' = "retry_exhausted") => pc' = "fit"
        /\ (stopCause' = "retry_exhausted") =>
              /\ AfterSampling'
              /\ (stopCause = "retry_exhausted" => UNCHANGED lists)
              /\ (pc' = "done" =>
                    ZeroAttempted' /\ motorStop' # "none" /\ plot' # "none")
      ]_vars

\* A run that lost telemetry after some samples and still finished.
C4_Witness ==
    /\ pc = "done"
    /\ stopCause = "retry_exhausted"
    /\ Len(currents) = 3
    /\ plot # "none"

\* C5: with PolePairs <= 0 the run aborts before the ramp: no duty cycle
\* above zero is commanded and no sample is acquired.  The code accepts
\* any integer, so the statement is violated.
C5_InvalidPolePairsAbort ==
    (magnet_pole_pairs # None /\ Get(magnet_pole_pairs) <= 0) =>
        (RampCommands = <<>> /\ currents = <<>>)

\* C6: when the loop is left with fewer than 10 samples there is no (R, c),
\* efficiencies stays empty, the script does not exit early, and it ends
\* with set_duty_cycle(0) attempted, the plot block entered and vesc deleted.
C6_InsufficientData ==
    (stopCause # "none" /\ Len(currents) < 10) =>
        /\ coefficients = None
        /\ efficiencies = <<>>
        /\ pc \in {"fit", "stop_motor", "plot", "close", "done"}
        /\ (pc = "done" =>
              /\ ZeroAttempted
              /\ motorStop # "none"
              /\ plot # "none"
              /\ vesc = "deleted")

\* A run that ended with 4 samples.
C6_Witness ==
    /\ pc = "done"
    /\ Len(currents) = 4
    /\ stopCause = "threshold"

\* C7: with 1 to 9 samples the plot is handed a current series and an
\* efficiency series of the same length.  The code leaves efficiencies
\* empty, so the statement is violated.
C7_PartialLogRenderable ==
    (pc = "plot" /\ Len(currents) \in 1..9) => Len(efficiencies) = Len(currents)

\* The order of the phases in the specification, the motor stop and the
\* connection release being one Shutdown phase after Exporting.
SpecRank(p) ==
    CASE p \in {"connect", "ask_pole_pairs"} -> 0
      [] p = "measure_idle" -> 1
      [] p \in {"ramp", "ramp_sleep"} -> 2
      [] p = "wait_enter" -> 3
      [] p \in {"query", "retry_sleep", "log", "cadence_sleep"} -> 4
      [] p = "fit" -> 5
      [] p = "efficiency" -> 6
      [] p = "plot" -> 7
      [] p \in {"stop_motor", "close"} -> 8
      [] p \in {"done", "exited"} -> 9

\* C8 as stated: the phases are passed in the order Idle ... Estimating,
\* ComputingEfficiency or SkippedInsufficientData, Exporting, Shutdown, the
\* export before the zero duty command.  The code stops the motor before
\* it plots, so the statement is violated.
C8_ExportBeforeShutdown == [][SpecRank(pc') >= SpecRank(pc)]_vars

\* The order of the phases in the code.
CodeRank(p) ==
    CASE p \in {"connect", "ask_pole_pairs"} -> 0
      [] p = "measure_idle" -> 1
      [] p \in {"ramp", "ramp_sleep"} -> 2
      [] p = "wait_enter" -> 3
      [] p \in {"query", "retry_sleep", "log", "cadence_sleep"} -> 4
      [] p = "fit" -> 5
      [] p = "efficiency" -> 6
      [] p = "stop_motor" -> 7
      [] p = "plot" -> 8
      [] p = "close" -> 9
      [] p = "done" -> 10
      [] p = "exited" -> 11

\* C8 amended: a step stays in its phase or enters the next one, in the
\* order Idle, MeasuringIdleCurrent, Ramping, AwaitingTrigger, Sampling,
\* Stopped and Estimating, ComputingEfficiency (skipped exactly when there
\* are fewer than 10 samples), motor stop, Exporting, connection release;
\* the only other step is the early exit, taken before sampling.  The
\* zero duty command is attempted before the plot and vesc is deleted
\* after it.
C8_PhaseOrder ==
    [][ /\ \/ CodeRank(pc') = CodeRank(pc)
           \/ CodeRank(pc') = CodeRank(pc) + 1
           \/ pc = "fit" /\ pc' = "stop_motor" /\ Len(currents) < 10
           \/ pc' = "exited" /\ CodeRank(pc) <= 2
        /\ (pc = "fit" /\ pc' = "efficiency") => Len(currents) >= 10
        /\ (pc = "fit") => stopCause \in {"threshold", "retry_exhausted", "exception"}
        /\ (pc' = "plot" /\ pc # pc') => (ZeroAttempted' /\ plot' = "none")
        /\ (pc' = "close" /\ pc # pc') => (plot' # "none" /\ vesc' = "open")
        /\ (pc' = "done") => vesc' = "deleted"
      ]_vars

\* A complete run with the efficiency computed and the plot saved.
C8_Witness ==
    /\ pc = "done"
    /\ Len(efficiencies) >= 10
    /\ plot = "saved"
    /\ motorStop = "ok"
    /\ vesc = "deleted"

\* C9: once the idle-current measurement or a ramp command has failed the
\* process is terminated: no further duty cycle is commanded, the prompt
\* for the start is not reached, the lists stay empty, and there is no
\* fit and no plot.
C9_FatalFailureEndsRun ==
    [][ /\ (failed' \in {"idle", "ramp"}) =>
              /\ pc' = "exited"
              /\ currents' = <<>> /\ erpms' = <<>> /\ voltages' = <<>>
              /\ coefficients' = None
              /\ efficiencies' = <<>>
              /\ plot' = "none"
        /\ (failed \in {"idle", "ramp"}) => UNCHANGED commands
      ]_vars

\* The fourth command of the ramp failed.
C9_Witness ==
    /\ failed = "ramp"
    /\ pc = "exited"
    /\ Len(commands) = 4

\* The distance of b from the exact sum a + 0.05, in units of 2^-56.
StepError(a, b) ==
    LET exact == Carry(a.hi + 13421772, a.lo + 214748365)
        h == b.hi - exact.hi
        d == h * Limb + (b.lo - exact.lo)
    IN  IF h < -1 \/ h > 1 THEN Limb ELSE IF d < 0 THEN -d ELSE d

\* C10: as long as no command fails, the ramp commands start at 0.1, are
\* strictly increasing, each the one before plus 0.05 up to the rounding
\* of the double (at most half a unit in the last place, 4 * 2^-56 below
\* 1), every command is followed by one settle delay, and the ramp ends
\* after exactly 17 commands.
C10_RampSequence ==
    (pc # "connect" /\ failed # "ramp") =>
      LET r == RampCommands
      IN  /\ Len(r) <= 17
          /\ (r # <<>> => r[1] = Float(26843545, 161061274))
          /\ \A k \in 1..(Len(r) - 1) :
                /\ r[k].hi < r[k + 1].hi
                     \/ (r[k].hi = r[k + 1].hi /\ r[k].lo < r[k + 1].lo)
                /\ StepError(r[k], r[k + 1]) <= 4
          /\ settles = (IF pc = "ramp_sleep" THEN Len(r) - 1 ELSE Len(r))
          /\ (CodeRank(pc) \in 3..10) => Len(r) = 17

\* The ramp has ended and the script waits for Enter.
C10_Witness ==
    /\ pc = "wait_enter"
    /\ Len(commands) = 17
    /\ settles = 17

\* The stop check lets the loop go on after the last logged sample: restated
\* on the logged values, for a pole-pair count pp # 0.
LastSampleContinues ==
    LET n == Len(currents)
        pp == Get(magnet_pole_pairs)
    IN  /\ currents[n] <= 60
        /\ pp # 0
        /\ pp > 0 => erpms[n].n * pp >= 1000 * erpms[n].d
        /\ pp < 0 => erpms[n].n * pp <= 1000 * erpms[n].d

\* C11: a telemetry query is made only when the log is empty or the stop
\* check on the last logged sample said continue; no query is made while
\* a sample is being handled; the fit starts only when the loop has been
\* left, and from then on the lists never change and the script never
\* returns to the loop.
C11_StrictlySequential ==
    [][ /\ (pc = "query" /\ attempt' = attempt + 1 /\ currents # <<>>) =>
              LastSampleContinues
        /\ (pc = "log") => (attempt' = attempt)
        /\ (pc' = "fit") => stopCause' # "none"
        /\ (coefficients' # None) => AfterSampling'
        /\ AfterSampling => (AfterSampling' /\ UNCHANGED lists)
      ]_vars

\* The query of the third iteration returned data.
C11_Witness ==
    /\ pc = "log"
    /\ Len(currents) = 2
    /\ attempt = 1

\* C12: with R and c fitted, the efficiency loop writes one value per entry
\* of the whole log, in log order, the k-th from the k-th sample alone; the
\* log is left as it is, and the list keeps the length of the log in every
\* later phase.
C12_OnePointPerSample ==
    [][ /\ (pc = "efficiency" /\ pc' # pc) =>
              /\ UNCHANGED lists
              /\ Len(efficiencies') = Len(currents)
              /\ \A k \in 1..Len(currents) :
                    efficiencies'[k] =
                      Efficiency(Get(coefficients),
                                 currents[k], erpms[k], voltages[k])
        /\ (pc \in {"stop_motor", "plot", "close"}) => UNCHANGED efficiencies
        /\ (coefficients' # None
              /\ pc' \in {"stop_motor", "plot", "close", "done"}) =>
              Len(efficiencies') = Len(currents')
      ]_vars

\* A run ended with a log longer than the fit window and as many
\* efficiencies.
C12_Witness ==
    /\ pc = "done"
    /\ coefficients # None
    /\ Len(currents) = 11
    /\ Len(efficiencies) = 11

\* C14: once the fit block is passed, R and c exist exactly when the log
\* has at least 10 entries; they are set in one step, after the loop, to
\* the fit of the first 10 entries of the three lists, and never change
\* afterwards.
C14_ModelFromFirstTen ==
    [][ /\ (pc' \in {"efficiency", "stop_motor", "plot", "close", "done"}) =>
              ((coefficients' # None) <=> (Len(currents') >= 10))
        /\ (coefficients' # coefficients) =>
              /\ pc = "fit"
              /\ coefficients = None
              /\ stopCause # "none"
              /\ coefficients' =
                   Some(FitCoefficients(SubSeq(currents, 1, 10),
                                        SubSeq(voltages, 1, 10),
                                        SubSeq(erpms, 1, 10)))
      ]_vars

\* R and c were fitted on a log of 11 samples.
C14_Witness ==
    /\ pc = "efficiency"
    /\ coefficients # None
    /\ Len(currents) = 11

\* C17: the three lists have the same length in every state between two
\* statements of the loop body's iterations and in every later phase.
C17_ListsSameLength ==
    /\ Len(currents) = Len(erpms)
    /\ Len(erpms) = Len(voltages)

\* The loop was left by the exception of the stop check, after the sample
\* had been appended.
C17_Witness ==
    /\ pc = "fit"
    /\ stopCause = "exception"
    /\ magnet_pole_pairs = Some(0)
    /\ Len(currents) = 1
    /\ Len(voltages) = 1

\* C19: every duty cycle sent during the ramp is at least 0.1 and below
\* 0.95, and when the ramp is complete the last value sent is less than
\* one step of 0.05 away from 0.95.
C19_RampBelowTarget ==
    /\ \A k \in 1..Len(RampCommands) :
          /\ ~FloatLess(RampCommands[k], Float(26843545, 161061274))
          /\ FloatLess(RampCommands[k], Float(255013683, 53687088))
    /\ (pc = "wait_enter") =>
          /\ RampCommands # <<>>
          /\ ~FloatLess(FloatAdd(RampCommands[Len(RampCommands)],
                                 Float(13421772, 214748365)),
                        Float(255013683, 53687088))

\* The ramp is complete and its last command was 0.9000000000000002.
C19_Witness ==
    /\ pc = "wait_enter"
    /\ commands[Len(commands)] = Float(241591910, 107374200)

\* C20: from the end of the ramp until the motor stop, no step sends a
\* command or changes current_duty_cycle; the next command is the 0 of
\* the motor stop.
C20_NoCommandWhileMeasuring ==
    [][ /\ (pc \in {"wait_enter", "query", "retry_sleep", "log",
                    "cadence_sleep", "fit", "efficiency"}) =>
              UNCHANGED << commands, current_duty_cycle >>
        /\ (pc = "stop_motor" /\ pc' # pc) =>
              /\ commands' = Append(commands, FloatZero)
              /\ commands[Len(commands)] = Float(241591910, 107374200)
              /\ UNCHANGED current_duty_cycle
      ]_vars

\* Three samples were logged and the commands are still the 17 of the ramp.
C20_Witness ==
    /\ pc = "stop_motor"
    /\ Len(currents) >= 3
    /\ Len(commands) = 17
    /\ commands[17] = Float(241591910, 107374200)

\* C16: the sample appended by an iteration stores erpm / PolePairs for the
\* erpm of that iteration's query, and leaves the earlier entries alone.
C16_RpmIsErpmOverPolePairs ==
    [][ (pc = "log" /\ pc' # pc) =>
          LET pp == Get(magnet_pole_pairs)
              n == Len(erpms')
          IN  /\ n = Len(erpms) + 1
              /\ SubSeq(erpms', 1, n - 1) = erpms
              /\ pp # 0
              /\ erpms'[n].n * pp = Get(state).rpm * erpms'[n].d
      ]_vars

\* The number of set_duty_cycle(0) calls attempted so far.
ZeroCount == Len(SelectSeq(commands, LAMBDA x : x = FloatZero))

\* C18: leaving the loop never ends the script; the script cannot get past
\* the motor-stop block without having attempted set_duty_cycle(0), and
\* attempts it only once: it is the only command sent after the loop, it
\* is sent while the connection is open, no query follows it, and the
\* connection is deleted only after it.
C18_ZeroDutyAfterLoop ==
    [][ /\ (stopCause' # "none") => AfterSampling'
        /\ (stopCause # "none" /\ commands' # commands) =>
              /\ commands' = Append(commands, FloatZero)
              /\ ZeroCount = 0
              /\ pc = "stop_motor"
              /\ vesc = "open"
              /\ vesc' = "open"
        /\ (ZeroCount > 0) => (attempt' = attempt /\ state' = state)
        /\ (stopCause' # "none" /\ pc' \in {"plot", "close", "done"}) =>
              ZeroCount' = 1
        /\ (stopCause' # "none" /\ vesc' = "deleted") => ZeroCount' = 1
      ]_vars

\* A run whose loop was left by an exception ended with one zero command.
C18_Witness ==
    /\ pc = "done"
    /\ stopCause = "exception"
    /\ vesc = "deleted"
    /\ ZeroCount = 1

\* C13: every efficiency in the list is at least 0 and at most 100, and
\* the efficiency of a sample whose voltage * current is not greater than
\* 0 is 0.
C13_EfficiencyInRange ==
    \A k \in 1..Len(efficiencies) :
        /\ QSign(efficiencies[k]) >= 0
        /\ ~QLess(QOfInt(100), efficiencies[k])
        /\ (voltages[k] * currents[k] <= 0) => QSign(efficiencies[k]) = 0

\* The loop has run on a sample of 12 V and no current.
C13_Witness ==
    /\ pc = "stop_motor"
    /\ Len(efficiencies) = 1
    /\ currents[1] = 0
    /\ voltages[1] = 12
    /\ QSign(efficiencies[1]) = 0

\* The first 10 samples are what a motor of parameters t yields without
\* noise: voltage = R0 * current + c0 * 2 pi * rpm.
NoiseFree(t) ==
    /\ Len(currents) >= 10
    /\ \A j \in 1..10 :
          QEq(QOfInt(voltages[j]),
              QAdd(QMul(QOfFrac(t.R), QOfInt(currents[j])),
                   QMul(QOfFrac(t.w), QOfFrac(erpms[j]))))

\* The fit returned the parameters t: R = R0 and c = w0 / (2 pi).
Recovered(t) ==
    /\ coefficients # None
    /\ QEq(Get(coefficients).R, QOfFrac(t.R))
    /\ QEq(QMul(Get(coefficients).c, TwoPi), QOfFrac(t.w))

\* The current and rpm columns of the first 10 samples are not
\* proportional to each other.
IndependentColumns ==
    \E j, k \in 1..10 :
        currents[j] * erpms[k].n * erpms[j].d
          # currents[k] * erpms[j].n * erpms[k].d

\* C15 as stated: the fit of 10 samples without noise returns the
\* parameters that generated them.
C15_RecoversParameters ==
    (pc = "efficiency") => \A t \in Truths : NoiseFree(t) => Recovered(t)

\* C15: the fit of 10 samples without noise whose current and rpm columns
\* are not proportional returns the parameters that generated them.
C15_RecoversIdentifiableParameters ==
    (pc = "efficiency") =>
        \A t \in Truths : (NoiseFree(t) /\ IndependentColumns) => Recovered(t)

\* The fit of a log of two operating points returned R0 = 1/10 and
\* c0 * 2 pi = 1/100.
C15_Witness ==
    /\ pc = "efficiency"
    /\ IndependentColumns
    /\ NoiseFree([R |-> Frac(1, 10), w |-> Frac(1, 100)])
    /\ Recovered([R |-> Frac(1, 10), w |-> Frac(1, 100)])

====
